---- MODULE Spec2Model ----
(***************************************************************************)
(* Verification model of the postgen backend (backend/app).                *)
(*                                                                         *)
(*   config.py                      Settings                               *)
(*   services/retry.py              retry_async                            *)
(*   services/youtube_api.py        get_youtube_metadata                   *)
(*   services/youtube_transcript.py get_youtube_transcript                 *)
(*   services/youtube_frames.py     analyze_youtube_frames                 *)
(*   services/supabase.py           check_balance, spend_tokens            *)
(*   routers/analysis.py            api_analyze_url                        *)
(*   services/scrapecreators.py     ScrapeCreatorsClient.analyze_youtube,  *)
(*                                  detect_platform, analyze_url           *)
(*                                                                         *)
(* Spec      one analyze_youtube request, from entry to return or raise.   *)
(* SpecRetry one retry_async call on an arbitrary coroutine factory.       *)
(* SpecDetect one analyze_url request on a URL given character by          *)
(*           character.                                                    *)
(* SpecTranscript one get_youtube_transcript call.                         *)
(* SpecRoute one POST /api/analyze-url request.                            *)
(* SpecLedger two concurrent spend_tokens calls for one user.              *)
(* SpecPure  the pure helpers applied to bounded inputs.                   *)
(***************************************************************************)
EXTENDS Integers, Sequences, FiniteSets, TLC

VARIABLES
    rt,        \* activation record of the running retry_async call
    settings,  \* the object get_settings() returns
    req,       \* arguments of analyze_youtube: url, language
    pc,        \* position of the analyze_youtube coroutine
    loc,       \* local variables of analyze_youtube
    fr,        \* local variables of analyze_youtube_frames
    ncalls,    \* outbound calls issued so far, per upstream
    ret,       \* how the request ended: returned record or raised
    au,        \* activation record of analyze_url
    tr,        \* activation record of get_youtube_transcript
    rq,        \* activation record of the route api_analyze_url
    sb,        \* the Supabase ledger and the spend_tokens calls in progress
    pf         \* argument and value of the pure function under evaluation

vars == <<rt, settings, req, pc, loc, fr, ncalls, ret, au, tr, rq, sb, pf>>

(***************************************************************************)
(* Bounds of the model.                                                    *)
(***************************************************************************)
MaxRetries == 3

MaxBaseDelay == 2

(***************************************************************************)
(* Exceptions.  An exception object is a record: its class, the HTTP       *)
(* status it carries (0 when it carries none) and the attempt that raised  *)
(* it (its identity).                                                      *)
(***************************************************************************)
NoExc == [kind |-> "none", status |-> 0, at |-> 0]

Exc(k, s, a) == [kind |-> k, status |-> s, at |-> a]

\* httpx failures of one network call: a transport failure (timeout), and
\* the HTTPStatusError that raise_for_status() builds for a 4xx or 5xx reply.
NetFailures(a) ==
    { Exc("TimeoutException", 0, a),
      Exc("HTTPStatusError", 404, a), Exc("HTTPStatusError", 503, a) }

\* Mutation of IsInstance: the clause catches every Exception.
IsInstanceAny(e, classes) == TRUE

\* `except retry_on as e`: e is an instance of one of the classes of the
\* tuple; every class used here derives from Exception.
IsInstance(e, classes) == e.kind \in classes \/ "Exception" \in classes

(***************************************************************************)
(* retry_async (services/retry.py).                                        *)
(* rt is the activation record of the running retry_async call.            *)
(***************************************************************************)
RetryIdle ==
    [state |-> "idle", op |-> "none", max_retries |-> 0, retry_on |-> {},
     base_delay |-> 0, attempt |-> 0, last_exception |-> NoExc,
     result |-> "none", raised |-> NoExc, history |-> <<>>, sleeps |-> <<>>]

\* Entry of retry_async: last_exception = None, the loop starts at attempt 1.
RetryStart(op, max_retries, retry_on, base_delay) ==
    [RetryIdle EXCEPT !.state = "calling", !.op = op,
                      !.max_retries = max_retries, !.retry_on = retry_on,
                      !.base_delay = base_delay, !.attempt = 1]

\* 2 ** n
RECURSIVE Pow2(_)
Pow2(n) == IF n <= 0 THEN 1 ELSE 2 * Pow2(n - 1)

\* Mutation of Delay: the exponent is the attempt index itself.
DelayOffByOne(base_delay, attempt) == base_delay * Pow2(attempt)

\* delay = base_delay * (2 ** (attempt - 1))
Delay(base_delay, attempt) == base_delay * Pow2(attempt - 1)

\* Mutation of RetryReturn: a successful attempt that is not the last one
\* is followed by another iteration.
RetryReturnKeepsLooping(r, out, h) ==
    IF r.attempt < r.max_retries
    THEN [r EXCEPT !.state = "sleeping", !.result = out.value, !.history = h]
    ELSE [r EXCEPT !.state = "returned", !.result = out.value, !.history = h]

\* `return await coro_factory()`: the value of the coroutine is the value
\* of retry_async and the loop is left.
RetryReturn(r, out, h) ==
    [r EXCEPT !.state = "returned", !.result = out.value, !.history = h]

\* Mutation of Reraise: the exhausted call raises a new exception that
\* wraps the last failure.
ReraiseWrapped(e) == Exc("RetryError", 0, e.at)

\* Lines 33-35: the bare `raise` inside the except clause re-raises the
\* exception object e that was caught.
Reraise(e) == e

\* One iteration of the loop body: the try/except around coro_factory().
\* out is what the awaited coroutine did: it returned a value or raised.
RetryStep(r, out) ==
    LET h == Append(r.history, out) IN
    IF out.ok
    THEN RetryReturn(r, out, h)
    ELSE IF ~IsInstance(out.exc, r.retry_on)
    THEN [r EXCEPT !.state = "raised", !.raised = out.exc, !.history = h]
    ELSE IF r.attempt = r.max_retries
    THEN [r EXCEPT !.state = "raised", !.raised = Reraise(out.exc),
                   !.last_exception = out.exc, !.history = h]
    ELSE [r EXCEPT !.state = "sleeping", !.last_exception = out.exc,
                   !.history = h,
                   !.sleeps = Append(@, [after |-> r.attempt,
                                         delay |-> Delay(r.base_delay, r.attempt)])]

\* What a coroutine without further structure may do on one attempt.
GenericOutcomes(a) ==
    { [ok |-> TRUE, value |-> v, exc |-> NoExc] : v \in {"v1", "v2"} }
    \cup { [ok |-> FALSE, value |-> "none", exc |-> e] :
             e \in NetFailures(a) \cup {Exc("ConnectError", 0, a),
                                        Exc("ValueError", 0, a)} }

\* Line 43: a reply of fewer bytes is the placeholder YouTube serves for a
\* missing thumbnail.
MinThumbnailBytes == 1000

\* len(response.content) of the replies explored.
ThumbnailSizes == {0, 999, 1000}

\* Mutation of FetchReturn: `<=` instead of `<`.
FetchReturnInclusive(size) == IF size <= MinThumbnailBytes THEN "None" ELSE "b64"

\* Lines 42-46 of _fetch: None for a payload under 1000 bytes, its base64
\* text otherwise.
FetchReturn(size) == IF size < MinThumbnailBytes THEN "None" ELSE "b64"

\* What _fetch (youtube_frames.py) may do on one attempt: the thumbnail
\* host answers with a payload of size bytes, or the call fails.
FetchOutcomes(a) ==
    { [ok |-> TRUE, value |-> FetchReturn(n), exc |-> NoExc, size |-> n] :
        n \in ThumbnailSizes }
    \cup { [ok |-> FALSE, value |-> "none", exc |-> e, size |-> 0] :
             e \in NetFailures(a) }

\* Replies of the vision model, by the marker lines they contain;
\* "malformed" is a JSON body without choices[0].message.content.
VisionReplies == {"both", "scene_only", "style_only", "neither", "malformed"}

\* What _call_vision may do on one attempt.
VisionOutcomes(a) ==
    { [ok |-> TRUE, value |-> v, exc |-> NoExc] : v \in VisionReplies }
    \cup { [ok |-> FALSE, value |-> "none", exc |-> e] : e \in NetFailures(a) }

Outcomes(r) ==
    CASE r.op = "fetch" -> FetchOutcomes(r.attempt)
      [] r.op = "vision" -> VisionOutcomes(r.attempt)
      [] OTHER -> GenericOutcomes(r.attempt)

\* The upstream a coroutine calls.
Apis == {"official", "scrape_meta", "captions", "scrape_transcript",
         "thumbnail", "vision", "scrape_post"}

ApiOf(op) == IF op = "fetch" THEN "thumbnail" ELSE "vision"

Called(n, api) == [n EXCEPT ![api] = @ + 1]

\* `return await coro_factory()` inside the loop.
RetryAttempt ==
    /\ rt.state = "calling"
    /\ rt.attempt <= rt.max_retries
    /\ \E out \in Outcomes(rt) : rt' = RetryStep(rt, out)
    /\ ncalls' = IF rt.op = "generic" THEN ncalls
                 ELSE Called(ncalls, ApiOf(rt.op))
    /\ UNCHANGED <<au, tr, rq, sb, pf, settings, req, pc, loc, fr, ret>>

\* asyncio.sleep(delay) is over: next iteration of the for loop.
RetryWake ==
    /\ rt.state = "sleeping"
    /\ rt' = [rt EXCEPT !.state = "calling", !.attempt = @ + 1]
    /\ UNCHANGED <<au, tr, rq, sb, pf, settings, req, pc, loc, fr, ncalls, ret>>

\* range(1, max_retries + 1) is empty: `raise last_exception` with
\* last_exception = None, which Python turns into a TypeError.
RetryExhausted ==
    /\ rt.state = "calling"
    /\ rt.attempt > rt.max_retries
    /\ rt' = [rt EXCEPT !.state = "raised",
                        !.raised = Exc("TypeError", 0, 0)]
    /\ UNCHANGED <<au, tr, rq, sb, pf, settings, req, pc, loc, fr, ncalls, ret>>

(***************************************************************************)
(* Configuration (config.py).                                              *)
(***************************************************************************)
None == "None"

\* Reading an attribute the Settings class does not declare raises
\* AttributeError; NoAttr marks such an attribute.
NoAttr == "no attribute"

\* The fields class Settings declares.
SettingsFields ==
    {"scrapecreators_api_key", "supabase_url", "supabase_anon_key",
     "cors_origins", "price_url_analysis"}

\* The attributes of the settings object the YouTube services read.
Credentials == {"youtube_api_key", "scrapecreators_api_key", "openai_api_key"}

\* A declared string field holds the environment's value, or its default "".
AttrValues(a) == IF a \in SettingsFields THEN {"", "key"} ELSE {NoAttr}

\* The configuration surface of the specification: three independent
\* credentials, each present or absent.
SurfaceValues(a) == IF a \in Credentials THEN {"", "key"} ELSE {}

\* The objects get_settings() may return: the class of config.py, or a
\* class that also declares credentials of the configuration surface.
SettingsObjects ==
    { s \in [Credentials -> {NoAttr, "", "key"}] :
        \A a \in Credentials : s[a] \in AttrValues(a) \cup SurfaceValues(a) }

(***************************************************************************)
(* YouTube URLs, by the shape the extractors' patterns tell apart:         *)
(*   "watch"  youtube.com/watch?v=ID and youtu.be/ID (every pattern list   *)
(*            has both alternatives side by side)                          *)
(*   "shorts" youtube.com/shorts/ID                                        *)
(*   "embed"  youtube.com/embed/ID                                         *)
(*   "v"      youtube.com/v/ID                                             *)
(*   "none"   a YouTube URL without video id (a channel, a playlist)       *)
(***************************************************************************)
UrlShapes == {"watch", "shorts", "embed", "v", "none"}

VideoId == "dQw4w9WgXcQ"

\* ScrapeCreatorsClient.extract_youtube_video_id: two patterns, in order.
ClientPatterns == << {"watch", "shorts"}, {"embed"} >>

extract_youtube_video_id(url) ==
    IF \E i \in 1..Len(ClientPatterns) : url \in ClientPatterns[i]
    THEN VideoId ELSE None

\* youtube_api.extract_video_id: one pattern.
ApiPatterns == << {"watch", "shorts", "embed", "v"} >>

extract_video_id(url) ==
    IF \E i \in 1..Len(ApiPatterns) : url \in ApiPatterns[i]
    THEN VideoId ELSE None

\* ScrapeCreatorsClient.detect_youtube_type
detect_youtube_type(url) == IF url = "shorts" THEN "short" ELSE "video"

(***************************************************************************)
(* get_youtube_metadata (youtube_api.py).                                  *)
(***************************************************************************)
\* What happens inside the try block: the library is missing, the lookup
\* returns the video, returns no item, or fails (HttpError, network error,
\* a field that int() rejects).
OfficialOutcomes == {"ok", "not_found", "error", "import_error"}

Descriptions == {"", "desc"}

\* Mutation of OfficialCalls: a failed lookup is issued a second time.
OfficialCallsRetried(up) ==
    IF up = "import_error" THEN 0 ELSE IF up = "error" THEN 2 ELSE 1

\* Number of videos().list() requests executed: request.execute() appears
\* once and no loop or retry surrounds it.
OfficialCalls(up) == IF up = "import_error" THEN 0 ELSE 1

get_youtube_metadata(s, url, up, d) ==
    IF s["youtube_api_key"] = NoAttr
    THEN [kind |-> "raise", exc |-> Exc("AttributeError", 0, 1),
          metadata |-> None, description |-> "", calls |-> 0]
    ELSE IF s["youtube_api_key"] = "" \/ extract_video_id(url) = None
    THEN [kind |-> "value", exc |-> NoExc,
          metadata |-> None, description |-> "", calls |-> 0]
    ELSE IF up = "ok"
    THEN [kind |-> "value", exc |-> NoExc,
          metadata |-> "YouTubeMetadata", description |-> d,
          calls |-> OfficialCalls(up)]
    ELSE [kind |-> "value", exc |-> NoExc,
          metadata |-> None, description |-> "", calls |-> OfficialCalls(up)]

(***************************************************************************)
(* ScrapeCreatorsClient.analyze_youtube (scrapecreators.py).               *)
(***************************************************************************)
Absent == "absent"

\* str(e)
StrOf(e) ==
    CASE e.kind = "HTTPStatusError" /\ e.status = 401 -> "Client error '401 Unauthorized'"
      [] e.kind = "HTTPStatusError" /\ e.status = 404 -> "Client error '404 Not Found'"
      [] e.kind = "HTTPStatusError" -> "Server error '503 Service Unavailable'"
      [] OTHER -> e.kind

NoRecord ==
    [success |-> FALSE, error |-> Absent, post_text |-> Absent,
     narrative |-> Absent, transcript |-> Absent,
     transcript_language |-> Absent, scene_description |-> Absent,
     style_description |-> Absent, is_short |-> Absent,
     metadata_source |-> Absent]

Running == [kind |-> "running", rec |-> NoRecord, exc |-> NoExc]

Returned(r) == [kind |-> "returned", rec |-> r, exc |-> NoExc]

Raised(e) == [kind |-> "raised", rec |-> NoRecord, exc |-> e]

\* Locals at entry; metadata_source = "unknown".
InitLoc ==
    [is_short |-> Absent, metadata_source |-> "unknown", metadata |-> None,
     official |-> "not_run", scrape |-> "not_called", scrape_exc |-> NoExc,
     description |-> Absent, transcript |-> None,
     transcript_language |-> None, transcript_stage |-> "not_run",
     narrative |-> Absent, video_id |-> Absent, frames_stage |-> "not_run",
     scene_description |-> None, style_description |-> None]

\* Mutation of AfterMetadata: the frame stage follows metadata resolution.
AfterMetadataFrames == "frames"

\* The statement after metadata resolution (line 292) is the transcript
\* stage (lines 294-303).
AfterMetadata == "transcript"

\* Lines 238-260: is_short, then `metadata = await get_youtube_metadata(url)`
\* outside any try, then the branch on `if metadata`.
AnalyzeYoutubeMetadata ==
    /\ pc = "metadata"
    /\ \E up \in OfficialOutcomes, d \in Descriptions :
         LET m == get_youtube_metadata(settings, req.url, up, d)
             short == IF detect_youtube_type(req.url) = "short"
                      THEN "True" ELSE "False"
         IN
         /\ ncalls' = [ncalls EXCEPT !["official"] = @ + m.calls]
         /\ IF m.kind = "raise"
            THEN /\ pc' = "done"
                 /\ ret' = Raised(m.exc)
                 /\ loc' = [loc EXCEPT !.is_short = short,
                                       !.official = "raised"]
            ELSE IF m.metadata # None
            THEN /\ pc' = AfterMetadata
                 /\ loc' = [loc EXCEPT !.is_short = short,
                                       !.official = "ok",
                                       !.metadata = m.metadata,
                                       !.metadata_source = "youtube_api",
                                       !.description = m.description]
                 /\ UNCHANGED ret
            ELSE /\ pc' = "scrape"
                 /\ loc' = [loc EXCEPT !.is_short = short,
                                       !.official = "nothing",
                                       !.metadata_source = "scrapecreators"]
                 /\ UNCHANGED ret
    /\ UNCHANGED <<au, tr, rt, rq, sb, pf, settings, req, fr>>

\* Failures of one GET of the scraping API inside _make_request: the httpx
\* failures, a 401 for a rejected key, and a body that is not JSON.
ScrapeFailures ==
    NetFailures(1) \cup {Exc("HTTPStatusError", 401, 1),
                         Exc("JSONDecodeError", 0, 1)}

\* A request sent with an empty x-api-key is not served.
ScrapeOutcomes(key) ==
    IF key = ""
    THEN { [ok |-> FALSE, value |-> "none", exc |-> e] :
             e \in {Exc("HTTPStatusError", 401, 1),
                    Exc("TimeoutException", 0, 1)} }
    ELSE { [ok |-> TRUE, value |-> v, exc |-> NoExc] :
             v \in {"dict", "bad_shape"} }
         \cup { [ok |-> FALSE, value |-> "none", exc |-> e] :
                  e \in ScrapeFailures }

\* Lines 267-273.
FailureRecord(e) == [NoRecord EXCEPT !.success = FALSE, !.error = StrOf(e)]

\* Mutation of ScrapeFailed: no try/except around the call, the failure
\* leaves analyze_youtube.
ScrapeFailedRaises(e) == Raised(e)

\* Lines 264-273: `except Exception as e` returns the failure record.
ScrapeFailed(e) == Returned(FailureRecord(e))

\* Lines 262-292: one _make_request("/youtube/video") inside try/except
\* Exception, then the field reads outside the try.  A JSON body that is
\* not an object of the expected shape ("channel": null without
\* channelTitle, a duration that is neither number nor string, a list)
\* makes those reads raise.
AnalyzeYoutubeScrape ==
    /\ pc = "scrape"
    /\ \E out \in ScrapeOutcomes(settings["scrapecreators_api_key"]),
          d \in Descriptions :
         IF ~out.ok
         THEN /\ pc' = "done"
              /\ ret' = ScrapeFailed(out.exc)
              /\ loc' = [loc EXCEPT !.scrape = "failed",
                                    !.scrape_exc = out.exc]
         ELSE IF out.value = "bad_shape"
         THEN /\ pc' = "done"
              /\ ret' = Raised(Exc("AttributeError", 0, 1))
              /\ loc' = [loc EXCEPT !.scrape = "bad_shape"]
         ELSE /\ pc' = AfterMetadata
              /\ loc' = [loc EXCEPT !.scrape = "ok",
                                    !.metadata = "dict",
                                    !.description = d]
              /\ UNCHANGED ret
    /\ ncalls' = Called(ncalls, "scrape_meta")
    /\ UNCHANGED <<au, tr, rt, rq, sb, pf, settings, req, fr>>

(***************************************************************************)
(* Transcript stage: get_youtube_transcript (youtube_transcript.py).       *)
(***************************************************************************)
\* youtube_transcript._extract_video_id: one pattern.
TranscriptPatterns == << {"watch", "shorts", "embed"} >>

transcript_extract_video_id(url) ==
    IF \E i \in 1..Len(TranscriptPatterns) : url \in TranscriptPatterns[i]
    THEN VideoId ELSE None

\* Python truth value of an Optional[str].
Truthy(x) == x # None /\ x # ""

\* _get_transcript_free runs without suspension and catches every
\* Exception.  What it meets: the library is missing; the track list cannot
\* be read; no track is selected; the fetch fails; the cleaned text is
\* empty; a text is returned.  calls: requests to the caption service.
FreeOutcomes ==
    { [text |-> None, language |-> None, calls |-> 0],
      [text |-> None, language |-> None, calls |-> 1],
      [text |-> None, language |-> None, calls |-> 2] }
    \cup { [text |-> t, language |-> l, calls |-> 2] :
             t \in {"", "transcript text"}, l \in {"en-auto"} }

\* _get_transcript_scrapecreators: without key, (None, None) and no call;
\* otherwise one GET, whose failures and empty answers give (None, None).
\* A text that cleaning empties is returned as "".
PaidOutcomes(key) ==
    IF key = ""
    THEN { [text |-> None, language |-> None, calls |-> 0] }
    ELSE { [text |-> None, language |-> None, calls |-> 1] }
         \cup { [text |-> t, language |-> l, calls |-> 1] :
                  t \in {"", "paid transcript"}, l \in {"unknown"} }

\* Mutation of Narrative: the transcript replaces the description as soon
\* as it is not None.
NarrativeIfNotNone(description, transcript) ==
    IF transcript # None THEN transcript ELSE description

\* Lines 305-310: narrative = description; if transcript: narrative = transcript
Narrative(description, transcript) ==
    IF Truthy(transcript) THEN transcript ELSE description

\* Lines 296-310 once get_youtube_transcript has returned (text, language).
TranscriptStageDone(l, text, language) ==
    [l EXCEPT !.transcript = text, !.transcript_language = language,
              !.transcript_stage = "done",
              !.narrative = Narrative(l.description, text)]

\* get_youtube_transcript up to the end of Tier 1: without video id the
\* paid tier is next; a truthy Tier-1 text is returned at once.
AnalyzeYoutubeTranscriptFree ==
    /\ pc = "transcript"
    /\ IF transcript_extract_video_id(req.url) = None
       THEN /\ pc' = "transcript_paid"
            /\ loc' = [loc EXCEPT !.transcript_stage = "running"]
            /\ UNCHANGED ncalls
       ELSE \E out \in FreeOutcomes :
              /\ ncalls' = [ncalls EXCEPT !["captions"] = @ + out.calls]
              /\ IF Truthy(out.text)
                 THEN /\ pc' = "frames"
                      /\ loc' = TranscriptStageDone(loc, out.text, out.language)
                 ELSE /\ pc' = "transcript_paid"
                      /\ loc' = [loc EXCEPT !.transcript_stage = "running"]
    /\ UNCHANGED <<au, tr, rt, rq, sb, pf, settings, req, fr, ret>>

\* Tier 2, then lines 300-310 of analyze_youtube.
AnalyzeYoutubeTranscriptPaid ==
    /\ pc = "transcript_paid"
    /\ \E out \in PaidOutcomes(settings["scrapecreators_api_key"]) :
         /\ ncalls' = [ncalls EXCEPT !["scrape_transcript"] = @ + out.calls]
         /\ loc' = TranscriptStageDone(loc, out.text, out.language)
    /\ pc' = "frames"
    /\ UNCHANGED <<au, tr, rt, rq, sb, pf, settings, req, fr, ret>>

(***************************************************************************)
(* Frame stage: analyze_youtube_frames (youtube_frames.py) and the end of  *)
(* analyze_youtube.                                                        *)
(***************************************************************************)
\* len(THUMBNAIL_URLS)
NumThumbnails == 3

FrameRetryOn == {"TimeoutException", "ConnectError", "HTTPStatusError"}

InitFr ==
    [idx |-> 0, frames_base64 |-> <<>>, language |-> Absent,
     result |-> [scene_description |-> None, style_description |-> None,
                 frames_analyzed |-> 0],
     status |-> "not_run"]

FrameResult(scene, style, n) ==
    [scene_description |-> scene, style_description |-> style,
     frames_analyzed |-> n]

\* Lines 183-192 on the reply text.
SceneOf(reply) == IF reply \in {"both", "scene_only"} THEN "scene text" ELSE None

StyleOf(reply) == IF reply \in {"both", "style_only"} THEN "style text" ELSE None

\* Lines 328-354.
SuccessRecord(l) ==
    [success |-> TRUE, error |-> Absent, post_text |-> l.description,
     narrative |-> l.narrative, transcript |-> l.transcript,
     transcript_language |-> l.transcript_language,
     scene_description |-> l.scene_description,
     style_description |-> l.style_description,
     is_short |-> l.is_short, metadata_source |-> l.metadata_source]

\* Lines 318-354 once analyze_youtube_frames has returned dict res.
WithFrames(l, res) ==
    [l EXCEPT !.frames_stage = "done",
              !.scene_description = res.scene_description,
              !.style_description = res.style_description]

\* Mutation of FramesRaised: no try/except around analyze_youtube_frames.
FramesRaisedPropagates(l) == Raised(Exc("AttributeError", 0, 1))

\* Lines 323-354: an exception of analyze_youtube_frames is printed and the
\* record is returned with the descriptions left None.
FramesRaised(l) == Returned(SuccessRecord(l))

\* Lines 313-318 and analyze_youtube_frames up to its first await.
\*  - no video id: the stage is skipped;
\*  - settings.openai_api_key is read outside any try of
\*    analyze_youtube_frames: an AttributeError reaches the except of
\*    line 323;
\*  - empty key: the empty result;
\*  - otherwise the fetch of thumbnail 1 starts under retry_async.
AnalyzeYoutubeFrames ==
    /\ pc = "frames"
    /\ LET vid == extract_youtube_video_id(req.url) IN
       IF vid = None
       THEN /\ loc' = [loc EXCEPT !.video_id = None,
                                  !.frames_stage = "skipped"]
            /\ ret' = Returned(SuccessRecord(loc'))
            /\ pc' = "done"
            /\ UNCHANGED <<fr, rt>>
       ELSE IF settings["openai_api_key"] = NoAttr
       THEN /\ loc' = [loc EXCEPT !.video_id = vid,
                                  !.frames_stage = "raised"]
            /\ fr' = [fr EXCEPT !.status = "raised", !.language = req.language]
            /\ ret' = FramesRaised(loc')
            /\ pc' = "done"
            /\ UNCHANGED rt
       ELSE IF settings["openai_api_key"] = ""
       THEN /\ fr' = [fr EXCEPT !.status = "returned",
                                !.language = req.language,
                                !.result = FrameResult(None, None, 0)]
            /\ loc' = WithFrames([loc EXCEPT !.video_id = vid], fr'.result)
            /\ ret' = Returned(SuccessRecord(loc'))
            /\ pc' = "done"
            /\ UNCHANGED rt
       ELSE /\ loc' = [loc EXCEPT !.video_id = vid,
                                  !.frames_stage = "running"]
            /\ fr' = [fr EXCEPT !.status = "fetching", !.idx = 1,
                                !.language = req.language]
            /\ rt' = RetryStart("fetch", 2, FrameRetryOn, 1)
            /\ pc' = "fetching"
            /\ UNCHANGED ret
    /\ UNCHANGED <<au, tr, rq, sb, pf, settings, req, ncalls>>

\* fetch_thumbnail_as_base64 returns: the value of retry_async, or None
\* when retry_async raised (lines 53-55).
FetchValue(r) == IF r.state = "returned" THEN r.result ELSE None

\* Lines 92-103: the fetched frame is kept when truthy; then the next
\* thumbnail, or, after the last, the empty result without frames, or the
\* vision call under retry_async.
AnalyzeFramesFetched ==
    /\ pc = "fetching"
    /\ rt.state \in {"returned", "raised"}
    /\ LET data == FetchValue(rt)
           frames == IF Truthy(data) THEN Append(fr.frames_base64, fr.idx)
                     ELSE fr.frames_base64
       IN
       IF fr.idx < NumThumbnails
       THEN /\ fr' = [fr EXCEPT !.idx = @ + 1, !.frames_base64 = frames]
            /\ rt' = RetryStart("fetch", 2, FrameRetryOn, 1)
            /\ UNCHANGED <<pc, loc, ret>>
       ELSE IF frames = <<>>
       THEN /\ fr' = [fr EXCEPT !.frames_base64 = frames,
                                !.status = "returned",
                                !.result = FrameResult(None, None, 0)]
            /\ loc' = WithFrames(loc, fr'.result)
            /\ ret' = Returned(SuccessRecord(loc'))
            /\ pc' = "done"
            /\ rt' = RetryIdle
       ELSE /\ fr' = [fr EXCEPT !.frames_base64 = frames,
                                !.status = "vision"]
            /\ rt' = RetryStart("vision", 3, FrameRetryOn, 1)
            /\ pc' = "vision"
            /\ UNCHANGED <<loc, ret>>
    /\ UNCHANGED <<au, tr, rq, sb, pf, settings, req, ncalls>>

\* Lines 179-213: the reply is parsed; a reply of another shape, or a
\* failure retry_async raised, gives no descriptions and
\* frames_analyzed = len(frames_base64).  Then lines 319-354.
AnalyzeFramesVision ==
    /\ pc = "vision"
    /\ rt.state \in {"returned", "raised"}
    /\ LET n == Len(fr.frames_base64)
           res == IF rt.state = "returned" /\ rt.result # "malformed"
                  THEN FrameResult(SceneOf(rt.result), StyleOf(rt.result), n)
                  ELSE FrameResult(None, None, n)
       IN
       /\ fr' = [fr EXCEPT !.status = "returned", !.result = res]
       /\ loc' = WithFrames(loc, res)
       /\ ret' = Returned(SuccessRecord(loc'))
    /\ pc' = "done"
    /\ rt' = RetryIdle
    /\ UNCHANGED <<au, tr, rq, sb, pf, settings, req, ncalls>>

(***************************************************************************)
(* get_youtube_transcript in detail (services/youtube_transcript.py): the  *)
(* caption tracks of the video, the selection among them, and the length   *)
(* of the text.  A cleaned text is the sequence of the lengths of its      *)
(* words: _clean_transcript leaves single spaces between words and none    *)
(* at the ends.                                                            *)
(***************************************************************************)
\* Longest track list and longest text (in words) explored.
MaxTracks == 2

MaxWords == 2

MAX_TRANSCRIPT_LENGTH == 15000

\* len('... [transcript truncated]')
TruncationMarkerLength == 26

LanguageCodes == {"ru", "en", "en-US", "en-GB", "de", "fr"}

Tracks == [language_code : LanguageCodes, is_generated : BOOLEAN]

\* No Transcript object: transcript = None.
NoTrack == [language_code |-> None, is_generated |-> FALSE]

\* What list_transcripts can return: the library keeps one track per
\* language code and kind, and iterates over them in its own order.
TrackLists ==
    UNION { { l \in [1..n -> Tracks] :
                \A i, j \in 1..n : l[i] = l[j] => i = j } : n \in 0..MaxTracks }

\* find_manually_created_transcript(codes) and find_generated_transcript(
\* codes): the track of the first code of the list that has one of the
\* kind asked for; NoTranscriptFound (caught by the caller) otherwise.
FindTranscript(tracks, codes, generated) ==
    LET hits == { i \in 1..Len(codes) :
                    \E j \in 1..Len(tracks) :
                        tracks[j] = [language_code |-> codes[i],
                                     is_generated |-> generated] }
    IN  IF hits = {} THEN NoTrack
        ELSE [language_code |-> codes[CHOOSE i \in hits : \A k \in hits : i <= k],
              is_generated |-> generated]

\* Mutation of FirstTrack: the loop has no break, the last track of the
\* kind is kept.
LastTrack(tracks, generated) ==
    LET hits == { j \in 1..Len(tracks) : tracks[j].is_generated = generated }
    IN  IF hits = {} THEN NoTrack
        ELSE tracks[CHOOSE j \in hits : \A k \in hits : j >= k]

\* Lines 124-129 and 154-160: `for t in transcript_list`, break at the
\* first track of the kind.
FirstTrack(tracks, generated) ==
    LET hits == { j \in 1..Len(tracks) : tracks[j].is_generated = generated }
    IN  IF hits = {} THEN NoTrack
        ELSE tracks[CHOOSE j \in hits : \A k \in hits : j <= k]

\* Mutation of AutoTag: the suffix is missing.
AutoTagBare(code) == code

\* Line 158: f"{t.language_code}-auto"
AutoTag(code) == code \o "-auto"

EnglishCodes == <<"en", "en-US", "en-GB">>

\* Lines 100-162: the six priorities; each one runs only `if not transcript`.
SelectTrack(tracks) ==
    LET p1 == FindTranscript(tracks, <<"ru">>, FALSE)
        p2 == FindTranscript(tracks, EnglishCodes, FALSE)
        p3 == FirstTrack(tracks, FALSE)
        p4 == FindTranscript(tracks, <<"ru">>, TRUE)
        p5 == FindTranscript(tracks, EnglishCodes, TRUE)
        p6 == FirstTrack(tracks, TRUE)
    IN  IF p1 # NoTrack THEN [transcript |-> p1, language |-> "ru"]
        ELSE IF p2 # NoTrack THEN [transcript |-> p2, language |-> "en"]
        ELSE IF p3 # NoTrack
        THEN [transcript |-> p3, language |-> p3.language_code]
        ELSE IF p4 # NoTrack THEN [transcript |-> p4, language |-> "ru-auto"]
        ELSE IF p5 # NoTrack THEN [transcript |-> p5, language |-> "en-auto"]
        ELSE IF p6 # NoTrack
        THEN [transcript |-> p6, language |-> AutoTag(p6.language_code)]
        ELSE [transcript |-> NoTrack, language |-> None]

\* Word lengths of the texts explored.
WordLengths == {1000, 7500, 14990, 15001}

CleanedTexts == UNION { [1..n -> WordLengths] : n \in 0..MaxWords }

RECURSIVE SumTo(_, _)
SumTo(w, i) == IF i = 0 THEN 0 ELSE w[i] + SumTo(w, i - 1)

\* len() of the text with words w.
TextLen(w) == IF w = <<>> THEN 0 ELSE SumTo(w, Len(w)) + Len(w) - 1

\* Index (from 1) of the space that follows word i.
SpaceAt(w, i) == SumTo(w, i) + i

\* A str value: its words, whether the last one is only the head of a
\* word of the cleaned text, and whether the marker follows.  none: the
\* value is None.
Text(w, split, marker) ==
    [none |-> FALSE, words |-> w, split |-> split, marker |-> marker]

NoneText == [none |-> TRUE, words |-> <<>>, split |-> FALSE, marker |-> FALSE]

TextTruthy(t) == ~t.none /\ t.words # <<>>

\* Lines 179-181 and 248-250:
\*   if len(text) > MAX_TRANSCRIPT_LENGTH:
\*       text = text[:MAX_TRANSCRIPT_LENGTH].rsplit(' ', 1)[0]
\*       text += '... [transcript truncated]'
\* The slice keeps the characters 1..MAX_TRANSCRIPT_LENGTH; rsplit cuts at
\* the last space among them, and returns the slice whole when it holds no
\* space.
Truncate(w) ==
    IF TextLen(w) > MAX_TRANSCRIPT_LENGTH
    THEN LET spaces == { i \in 1..(Len(w) - 1) :
                           SpaceAt(w, i) <= MAX_TRANSCRIPT_LENGTH }
         IN  IF spaces = {}
             THEN Text(<<MAX_TRANSCRIPT_LENGTH>>,
                       w[1] > MAX_TRANSCRIPT_LENGTH, TRUE)
             ELSE Text(SubSeq(w, 1, CHOOSE i \in spaces :
                                       \A k \in spaces : i >= k),
                       FALSE, TRUE)
    ELSE Text(w, FALSE, FALSE)

\* A pair (transcript_text, language).
NonePair == [text |-> NoneText, language |-> None]

\* No get_youtube_transcript call in progress.
TrIdle ==
    [pc |-> "idle", url |-> "none", listed |-> FALSE, tracks |-> <<>>,
     selected |-> NoTrack, cleaned |-> <<>>, free |-> NonePair,
     result |-> NonePair]

\* What _get_transcript_free meets, lines 87-194: the import fails; the
\* track list cannot be read; it is read, a track is selected, and the
\* fetch fails or gives a text that cleaning turns into w.  Every
\* exception gives (None, None).  calls: requests to the caption service.
FreeRuns ==
    { [listed |-> FALSE, tracks |-> <<>>, fetched |-> FALSE, cleaned |-> <<>>,
       calls |-> c] : c \in {0, 1} }
    \cup { [listed |-> TRUE, tracks |-> l, fetched |-> FALSE, cleaned |-> <<>>,
            calls |-> IF SelectTrack(l).transcript = NoTrack THEN 1 ELSE 2] :
              l \in TrackLists }
    \cup { [listed |-> TRUE, tracks |-> l, fetched |-> TRUE, cleaned |-> w,
            calls |-> 2] :
              l \in { k \in TrackLists : SelectTrack(k).transcript # NoTrack },
              w \in CleanedTexts }

\* The pair _get_transcript_free returns on run r.
FreeResult(r) ==
    IF r.fetched
    THEN [text |-> Truncate(r.cleaned), language |-> SelectTrack(r.tracks).language]
    ELSE NonePair

\* Mutation of FreeSucceeded: the Tier-1 result is never returned.
FreeSucceededNever(pair) == FALSE

\* Line 288: `if transcript:`
FreeSucceeded(pair) == TextTruthy(pair.text)

\* get_youtube_transcript up to its first await, lines 279-293: the video
\* id, then Tier 1, which runs without suspension.
GetYoutubeTranscript ==
    /\ tr.pc = "entry"
    /\ IF transcript_extract_video_id(tr.url) = None
       THEN /\ tr' = [tr EXCEPT !.pc = "paid"]
            /\ UNCHANGED ncalls
       ELSE \E r \in FreeRuns :
              LET pair == FreeResult(r) IN
              /\ ncalls' = [ncalls EXCEPT !["captions"] = @ + r.calls]
              /\ tr' = [tr EXCEPT
                          !.pc = IF FreeSucceeded(pair) THEN "done" ELSE "paid",
                          !.listed = r.listed,
                          !.tracks = r.tracks,
                          !.selected = SelectTrack(r.tracks).transcript,
                          !.cleaned = r.cleaned,
                          !.free = pair,
                          !.result = IF FreeSucceeded(pair) THEN pair ELSE @]
    /\ UNCHANGED <<au, rt, rq, sb, pf, settings, req, pc, loc, fr, ret>>

\* What _get_transcript_scrapecreators meets once the key is there, lines
\* 217-263: the GET fails or the reply holds no text (None, None); the
\* reply holds a text that cleaning turns into w.
PaidRuns ==
    { [fetched |-> FALSE, cleaned |-> <<>>] }
    \cup { [fetched |-> TRUE, cleaned |-> w] : w \in CleanedTexts }

\* _get_transcript_scrapecreators, lines 207-263.
GetTranscriptPaid ==
    /\ tr.pc = "paid"
    /\ IF ~Truthy(settings["scrapecreators_api_key"])
       THEN /\ tr' = [tr EXCEPT !.pc = "done", !.result = NonePair]
            /\ UNCHANGED ncalls
       ELSE \E r \in PaidRuns :
              /\ ncalls' = Called(ncalls, "scrape_transcript")
              /\ tr' = [tr EXCEPT
                          !.pc = "done",
                          !.cleaned = r.cleaned,
                          !.result =
                              IF r.fetched
                              THEN [text |-> Truncate(r.cleaned),
                                    language |-> "unknown"]
                              ELSE NonePair]
    /\ UNCHANGED <<au, rt, rq, sb, pf, settings, req, pc, loc, fr, ret>>

(***************************************************************************)
(* Platform detection and dispatch (services/scrapecreators.py).  A URL    *)
(* is a sequence of one-character strings, so that lower-casing and the    *)
(* substring tests are computed character by character.                    *)
(***************************************************************************)
LowerLetters == <<"a", "b", "c", "d", "e", "f", "g", "h", "i", "j", "k", "l", "m", "n", "o", "p", "q", "r", "s", "t", "u", "v", "w", "x", "y", "z">>

UpperLetters == <<"A", "B", "C", "D", "E", "F", "G", "H", "I", "J", "K", "L", "M", "N", "O", "P", "Q", "R", "S", "T", "U", "V", "W", "X", "Y", "Z">>

\* str.lower() on one character: A-Z to a-z, every other character kept.
LowerChar(c) ==
    IF \E i \in 1..26 : UpperLetters[i] = c
    THEN LowerLetters[CHOOSE i \in 1..26 : UpperLetters[i] = c]
    ELSE c

\* url.lower(), line 35.
Lower(u) == [i \in 1..Len(u) |-> LowerChar(u[i])]

\* The `in` operator on strings: m occurs in u as a contiguous substring.
Contains(u, m) ==
    \E i \in 0..(Len(u) - Len(m)) : SubSeq(u, i + 1, i + Len(m)) = m

\* The string literals of detect_platform.
InstagramCom == <<"i", "n", "s", "t", "a", "g", "r", "a", "m", ".", "c", "o", "m">>

InstagrAm == <<"i", "n", "s", "t", "a", "g", "r", ".", "a", "m">>

TiktokCom == <<"t", "i", "k", "t", "o", "k", ".", "c", "o", "m">>

VmTiktokCom == <<"v", "m", ".", "t", "i", "k", "t", "o", "k", ".", "c", "o", "m">>

YoutubeCom == <<"y", "o", "u", "t", "u", "b", "e", ".", "c", "o", "m">>

YoutuBe == <<"y", "o", "u", "t", "u", ".", "b", "e">>

YoutubeComShorts == <<"y", "o", "u", "t", "u", "b", "e", ".", "c", "o", "m", "/", "s", "h", "o", "r", "t", "s">>

TwitterCom == <<"t", "w", "i", "t", "t", "e", "r", ".", "c", "o", "m">>

XCom == <<"x", ".", "c", "o", "m">>

TCo == <<"t", ".", "c", "o">>

LinkedinCom == <<"l", "i", "n", "k", "e", "d", "i", "n", ".", "c", "o", "m">>

RedditCom == <<"r", "e", "d", "d", "i", "t", ".", "c", "o", "m">>

ReddIt == <<"r", "e", "d", "d", ".", "i", "t">>

FacebookCom == <<"f", "a", "c", "e", "b", "o", "o", "k", ".", "c", "o", "m">>

FbCom == <<"f", "b", ".", "c", "o", "m">>

FbWatch == <<"f", "b", ".", "w", "a", "t", "c", "h">>

ThreadsNet == <<"t", "h", "r", "e", "a", "d", "s", ".", "n", "e", "t">>

\* The if-chain of detect_platform, lines 38-67, in the order of the code:
\* the tag returned and the literals its condition tests.
PlatformChecks ==
    << [tag |-> "instagram", markers |-> {InstagramCom, InstagrAm}],
       [tag |-> "tiktok",    markers |-> {TiktokCom, VmTiktokCom}],
       [tag |-> "youtube",   markers |-> {YoutubeCom, YoutuBe, YoutubeComShorts}],
       [tag |-> "twitter",   markers |-> {TwitterCom, XCom, TCo}],
       [tag |-> "linkedin",  markers |-> {LinkedinCom}],
       [tag |-> "reddit",    markers |-> {RedditCom, ReddIt}],
       [tag |-> "facebook",  markers |-> {FacebookCom, FbCom, FbWatch}],
       [tag |-> "threads",   markers |-> {ThreadsNet}] >>

\* The condition of the k-th if statement on the lower-cased URL.
CheckHolds(k, url_lower) ==
    \E m \in PlatformChecks[k].markers : Contains(url_lower, m)

\* detect_platform: the first if statement whose condition holds returns
\* its tag; line 69 returns "unknown" when none does.
detect_platform(url) ==
    LET url_lower == Lower(url)
        hits == {k \in 1..Len(PlatformChecks) : CheckHolds(k, url_lower)}
    IN  IF hits = {} THEN "unknown"
        ELSE PlatformChecks[CHOOSE k \in hits : \A j \in hits : k <= j].tag

\* PLATFORM_NAMES, lines 512-521.
PLATFORM_NAMES ==
    [p \in {"instagram", "tiktok", "youtube", "twitter", "linkedin",
            "reddit", "facebook", "threads"} |->
        CASE p = "instagram" -> "Instagram"
          [] p = "tiktok"    -> "TikTok"
          [] p = "youtube"   -> "YouTube"
          [] p = "twitter"   -> "Twitter/X"
          [] p = "linkedin"  -> "LinkedIn"
          [] p = "reddit"    -> "Reddit"
          [] p = "facebook"  -> "Facebook"
          [] p = "threads"   -> "Threads"]

\* No analyze_url call in progress.
AuIdle == [pc |-> "idle", url |-> <<>>, language |-> "ru", platform |-> None]

\* The dict analyze_url returns: the analyzer's dict with platform_name set.
PlatformRecord(success, platform) ==
    [success |-> success, platform |-> platform,
     platform_name |-> PLATFORM_NAMES[platform]]

\* Mutation of AnalyzeUrlRoute: the "unknown" test is missing, the URL is
\* handed to an analyzer.
AnalyzeUrlRouteNoGuard(platform) ==
    IF platform = "youtube" THEN "analyze_youtube" ELSE "analyzer"

\* Lines 554-581: where analyze_url goes once the platform is known.
AnalyzeUrlRoute(platform) ==
    IF platform = "unknown" THEN "raise"
    ELSE IF platform = "youtube" THEN "analyze_youtube"
    ELSE "analyzer"

\* analyze_url up to its first await: lines 551-558.
AnalyzeUrl ==
    /\ au.pc = "entry"
    /\ LET platform == detect_platform(au.url)
           route == AnalyzeUrlRoute(platform)
       IN  /\ au' = [au EXCEPT !.platform = platform,
                               !.pc = IF route = "raise" THEN "done" ELSE route]
           /\ ret' = IF route = "raise"
                     THEN Raised(Exc("ValueError", 0, 0))
                     ELSE ret
    /\ UNCHANGED <<tr, rt, rq, sb, pf, settings, req, pc, loc, fr, ncalls>>

\* Lines 567-583: `await analyzer(url)`.  Each analyzer other than
\* analyze_youtube issues exactly one _make_request (lines 113, 200, 358,
\* 394, 420, 451, 479), whose failure is not caught.
AnalyzeUrlAnalyzer ==
    /\ au.pc = "analyzer"
    /\ ncalls' = Called(ncalls, "scrape_post")
    /\ \/ ret' = Returned(PlatformRecord(TRUE, au.platform))
       \/ \E e \in NetFailures(1) : ret' = Raised(e)
    /\ au' = [au EXCEPT !.pc = "done"]
    /\ UNCHANGED <<tr, rt, rq, sb, pf, settings, req, pc, loc, fr>>

\* What `await client.analyze_youtube(url, language=language)` can yield
\* (specification Spec): the exception of the settings read with no call
\* issued, the failure record after both metadata sources were called, or
\* the success record.
AnalyzeYoutubeResults ==
    { [ret |-> Raised(Exc("AttributeError", 0, 0)), official |-> 0, scrape |-> 0,
       frames |-> FALSE],
      [ret |-> Returned(PlatformRecord(FALSE, "youtube")), official |-> 1,
       scrape |-> 1, frames |-> FALSE],
      [ret |-> Returned(PlatformRecord(TRUE, "youtube")), official |-> 1,
       scrape |-> 0, frames |-> TRUE],
      [ret |-> Returned(PlatformRecord(TRUE, "youtube")), official |-> 1,
       scrape |-> 1, frames |-> TRUE] }

\* Lines 562-565: the YouTube branch.  analyze_youtube gets language =
\* the language of analyze_url and hands it to analyze_youtube_frames
\* (line 319) when it reaches the frame stage.
AnalyzeUrlYoutube ==
    /\ au.pc = "analyze_youtube"
    /\ \E r \in AnalyzeYoutubeResults :
        /\ ret' = r.ret
        /\ ncalls' = [ncalls EXCEPT !["official"] = r.official,
                                    !["scrape_meta"] = r.scrape]
        /\ fr' = IF r.frames THEN [fr EXCEPT !.language = au.language] ELSE fr
    /\ au' = [au EXCEPT !.pc = "done"]
    /\ UNCHANGED <<tr, rt, rq, sb, pf, settings, req, pc, loc>>

\* URLs handed to analyze_url: scheme, host and path, as typed, in upper
\* case, or with the first letter of the host in upper case.
UrlSchemes == {<<>>, <<"h", "t", "t", "p", "s", ":", "/", "/">>, <<"h", "t", "t", "p", "s", ":", "/", "/", "w", "w", "w", ".">>}

UrlHosts ==
    {InstagramCom, InstagrAm, TiktokCom, VmTiktokCom, YoutubeCom, YoutuBe,
     TwitterCom, XCom, TCo, LinkedinCom, RedditCom, ReddIt, FacebookCom,
     FbCom, FbWatch, ThreadsNet,
     <<"e", "x", "a", "m", "p", "l", "e", ".", "o", "r", "g">>, <<"v", "i", "m", "e", "o", ".", "c", "o", "m">>, <<"1", "2", "7", ".", "0", ".", "0", ".", "1">>, <<"l", "o", "c", "a", "l", "h", "o", "s", "t">>}

UrlPaths == {<<>>, <<"/", "p", "/", "a", "b", "c">>, <<"/", "r", "/", "a", "/", "?", "s", "=", "1">>}

UpperChar(c) ==
    IF \E i \in 1..26 : LowerLetters[i] = c
    THEN UpperLetters[CHOOSE i \in 1..26 : LowerLetters[i] = c]
    ELSE c

Upper(u) == [i \in 1..Len(u) |-> UpperChar(u[i])]

Capitalize(u) == [i \in 1..Len(u) |-> IF i = 1 THEN UpperChar(u[i]) ELSE u[i]]

Urls ==
    UNION { { s \o h \o p, Upper(s \o h \o p), s \o Capitalize(h) \o p } :
            <<s, h, p>> \in UrlSchemes \X UrlHosts \X UrlPaths }

(***************************************************************************)
(* Balance ledger (services/supabase.py).  Amounts are in cents.  The      *)
(* ledger holds one user's balance; spend_tokens calls run concurrently    *)
(* and interleave at their awaits.                                         *)
(***************************************************************************)
Callers == {1, 2}

\* price_url_analysis: float = 0.10
PriceUrlAnalysis == 10

Balances == {0, 5, 10, 15, 20}

Amounts == {5, 10}

\* The dict spend_tokens returns.
SpendResult(success, charged, error) ==
    [success |-> success, charged |-> charged, error |-> error]

NoSpendResult == SpendResult(FALSE, 0, None)

\* A spend_tokens call that has not started.  rpc_status: the status of
\* the reply to the spend_balance POST (0: none).
IdleCall ==
    [pc |-> "idle", amount |-> 0, rpc_status |-> 0, result |-> NoSpendResult]

SbIdle ==
    [balance |-> 0, balance0 |-> 0, user_exists |-> FALSE,
     calls |-> [c \in Callers |-> IdleCall]]

\* Entry of spend_tokens(user_id, amount, description).
StartCall(amount) == [IdleCall EXCEPT !.pc = "check", !.amount = amount]

\* What the GET of check_balance meets, lines 33-49: another status than
\* 200 or a transport failure (an exception), or the rows of the user.
CheckReplies == {"error", "rows"}

\* check_balance, lines 30-49, on the rows reply: False without row,
\* else balance >= required_amount.
check_balance(ledger, required_amount) ==
    IF ~ledger.user_exists THEN FALSE
    ELSE ledger.balance >= required_amount

\* spend_tokens up to the end of `await check_balance(...)`, lines 64-74
\* and the except of lines 97-103.
SpendTokensCheck ==
    /\ \E c \in Callers :
        /\ sb.calls[c].pc = "check"
        /\ \E reply \in CheckReplies :
            sb' = [sb EXCEPT !.calls[c] =
                IF reply = "error"
                THEN [@ EXCEPT !.pc = "done",
                               !.result = SpendResult(FALSE, 0, "Balance check failed")]
                ELSE IF ~check_balance(sb, @.amount)
                THEN [@ EXCEPT !.pc = "done",
                               !.result = SpendResult(FALSE, 0, "Insufficient balance")]
                ELSE [@ EXCEPT !.pc = "debit"]]
    /\ UNCHANGED <<au, tr, rt, rq, pf, settings, req, pc, loc, fr, ncalls, ret>>

\* Replies to POST /rest/v1/rpc/spend_balance: the function ran and
\* debited the balance (200, 204), it is missing or rejected the debit
\* (404, 400), or the request failed (0).
RpcReplies == {200, 204, 400, 404, 0}

\* Lines 88-103: another status than 200 or 204 is printed and success is
\* returned all the same; an exception of the POST gives the failure dict.
SpendReturn(amount, status) ==
    IF status = 0 THEN SpendResult(FALSE, 0, "Balance check failed")
    ELSE SpendResult(TRUE, amount, None)

\* spend_tokens from the POST of lines 77-85 to its return.
SpendTokensDebit ==
    /\ \E c \in Callers :
        /\ sb.calls[c].pc = "debit"
        /\ \E status \in RpcReplies :
            sb' = [sb EXCEPT
                     !.balance = IF status \in {200, 204}
                                 THEN @ - sb.calls[c].amount ELSE @,
                     !.calls[c] = [@ EXCEPT !.pc = "done",
                                            !.rpc_status = status,
                                            !.result = SpendReturn(sb.calls[c].amount,
                                                                   status)]]
    /\ UNCHANGED <<au, tr, rt, rq, pf, settings, req, pc, loc, fr, ncalls, ret>>

(***************************************************************************)
(* The route POST /api/analyze-url (routers/analysis.py).                  *)
(***************************************************************************)
NoResponse == [status |-> 0, success |-> FALSE]

RqIdle ==
    [pc |-> "idle", url |-> <<>>, language |-> "ru", response |-> NoResponse]

\* Mutation of SpendSucceeded: the result of spend_tokens is not looked at.
SpendSucceededAlways(result) == TRUE

\* Line 36: spend_result.get("success")
SpendSucceeded(result) == result.success

\* Lines 26-33: the fee is charged first.
ApiAnalyzeUrl ==
    /\ rq.pc = "entry"
    /\ sb' = [sb EXCEPT !.calls[1] = StartCall(PriceUrlAnalysis)]
    /\ rq' = [rq EXCEPT !.pc = "spend"]
    /\ UNCHANGED <<au, tr, rt, pf, settings, req, pc, loc, fr, ncalls, ret>>

\* Lines 36-43 once spend_tokens has returned: 402, or
\* `analyze_url(request.url)`, whose language parameter takes its default
\* "ru" (scrapecreators.py:527).
ApiAfterSpend ==
    /\ rq.pc = "spend"
    /\ sb.calls[1].pc = "done"
    /\ IF SpendSucceeded(sb.calls[1].result)
       THEN /\ au' = [pc |-> "entry", url |-> rq.url, language |-> "ru",
                      platform |-> None]
            /\ rq' = [rq EXCEPT !.pc = "analyze"]
       ELSE /\ rq' = [rq EXCEPT !.pc = "done",
                                !.response = [status |-> 402, success |-> FALSE]]
            /\ UNCHANGED au
    /\ UNCHANGED <<tr, rt, sb, pf, settings, req, pc, loc, fr, ncalls, ret>>

\* Lines 64-74: the status the except clauses give an exception of
\* analyze_url.
StatusOfException(e) ==
    IF e.kind = "ValueError" THEN 400
    ELSE IF e.kind \in {"TimeoutException", "ConnectError", "HTTPStatusError"}
    THEN 502
    ELSE 500

\* Lines 45-74 once analyze_url has ended: AnalysisResponse(success=True,
\* ...) built from the fields of data, or the HTTPException of the
\* matching except clause.
ApiRespond ==
    /\ rq.pc = "analyze"
    /\ au.pc = "done"
    /\ rq' = [rq EXCEPT
                !.pc = "done",
                !.response =
                    IF ret.kind = "returned"
                    THEN [status |-> 200, success |-> TRUE]
                    ELSE [status |-> StatusOfException(ret.exc),
                          success |-> FALSE]]
    /\ UNCHANGED <<au, tr, rt, sb, pf, settings, req, pc, loc, fr, ncalls, ret>>

(***************************************************************************)
(* Pure helpers, evaluated character by character.  pf holds the function  *)
(* applied, its argument, and, once done, its value or the fact that it    *)
(* raised.                                                                 *)
(***************************************************************************)
\* No pure function under evaluation.
PfIdle ==
    [fn |-> "none", arg |-> <<>>, value |-> 0, raised |-> FALSE,
     done |-> FALSE]

\* Longest duration string enumerated, and longest reply in lines.
MaxDurationLen == 4

MaxLines == 3

Digits == <<"0", "1", "2", "3", "4", "5", "6", "7", "8", "9">>

IsDigit(c) == \E i \in 1..10 : Digits[i] = c

\* int() of one digit.
DigitValue(c) == (CHOOSE i \in 1..10 : Digits[i] = c) - 1

\* int(match.group(1)) for the digits seg[i..j].
RECURSIVE IntOf(_, _, _)
IntOf(seg, i, j) ==
    IF j < i THEN 0 ELSE 10 * IntOf(seg, i, j - 1) + DigitValue(seg[j])

\* Index of the last digit of the run of digits that starts at i.
RECURSIVE RunEnd(_, _)
RunEnd(seg, i) ==
    IF i < Len(seg) /\ IsDigit(seg[i + 1]) THEN RunEnd(seg, i + 1) ELSE i

\* Lines 105-112: seconds of one unit of the date part.
DateUnits ==
    [u \in {"D", "W", "M", "Y"} |->
        CASE u = "D" -> 86400
          [] u = "W" -> 604800
          [] u = "M" -> 2592000
          [] u = "Y" -> 31536000]

\* Lines 119-124: seconds of one unit of the time part.
TimeUnits ==
    [u \in {"H", "M", "S"} |->
        CASE u = "H" -> 3600
          [] u = "M" -> 60
          [] u = "S" -> 1]

\* The loops over re.finditer(r'(\d+)([...])', seg), from index i on: a
\* match is a whole run of digits followed at once by a unit letter; a
\* run followed by anything else holds no match.
RECURSIVE SumTokens(_, _, _)
SumTokens(seg, i, units) ==
    IF i > Len(seg) THEN 0
    ELSE IF ~IsDigit(seg[i]) THEN SumTokens(seg, i + 1, units)
    ELSE LET j == RunEnd(seg, i) IN
         IF j < Len(seg) /\ seg[j + 1] \in DOMAIN units
         THEN IntOf(seg, i, j) * units[seg[j + 1]] + SumTokens(seg, j + 2, units)
         ELSE SumTokens(seg, j + 1, units)

\* The indices of the character T in d.
TPositions(d) == { i \in 1..Len(d) : d[i] = "T" }

\* parse_iso8601_duration, lines 89-130.  `date_part, time_part =
\* duration.split('T')` raises ValueError when split gives more than two
\* parts.
ParseDuration(duration) ==
    IF duration = <<>> \/ duration[1] # "P"
    THEN [raised |-> FALSE, value |-> 0]
    ELSE LET d == Tail(duration)
             ts == TPositions(d)
         IN  IF ts = {}
             THEN [raised |-> FALSE, value |-> SumTokens(d, 1, DateUnits)]
             ELSE IF Cardinality(ts) > 1
             THEN [raised |-> TRUE, value |-> 0]
             ELSE LET t == CHOOSE i \in ts : TRUE IN
                  [raised |-> FALSE,
                   value |-> SumTokens(SubSeq(d, 1, t - 1), 1, DateUnits)
                             + SumTokens(SubSeq(d, t + 1, Len(d)), 1, TimeUnits)]

\* The characters of the strings enumerated, and the strings.
DurationChars == {"P", "T", "1", "2", "D", "W", "M", "Y", "H", "S", "x"}

DurationExamples ==
    { <<"P", "T", "1", "H", "2", "M", "3", "S">>, <<"P", "T", "5", "M", "3", "0", "S">>, <<"P", "T", "4", "5", "S">>, <<"P", "1", "D", "T", "2", "H">>, <<"P", "1", "D">>, <<"P", "T", "0", "S">> }

DurationStrings ==
    DurationExamples
    \cup UNION { [1..n -> DurationChars] : n \in 0..MaxDurationLen }

\* str.strip() on a line: the spaces at both ends are removed.
RECURSIVE LStrip(_)
LStrip(l) == IF l # <<>> /\ l[1] = " " THEN LStrip(Tail(l)) ELSE l

RECURSIVE RStrip(_)
RStrip(l) ==
    IF l # <<>> /\ l[Len(l)] = " " THEN RStrip(SubSeq(l, 1, Len(l) - 1)) ELSE l

Strip(l) == LStrip(RStrip(l))

\* str.startswith
StartsWith(l, prefix) ==
    Len(l) >= Len(prefix) /\ SubSeq(l, 1, Len(prefix)) = prefix

SceneMarker == <<"S", "C", "E", "N", "E", ":">>

StyleMarker == <<"S", "T", "Y", "L", "E", ":">>

\* A description: None, or the text of a line after its marker.
NoDescription == [none |-> TRUE, text |-> <<>>]

Description(t) == [none |-> FALSE, text |-> t]

\* line[6:].strip()
AfterMarker(line) == Description(Strip(SubSeq(line, 7, Len(line))))

\* Lines 184-192: both descriptions start as None; the loop visits the
\* lines in order and assigns on every line that starts with a marker.
\* ParseReply(lines, n) is the pair after the first n lines.
RECURSIVE ParseReply(_, _)
ParseReply(lines, n) ==
    IF n = 0 THEN [scene |-> NoDescription, style |-> NoDescription]
    ELSE LET before == ParseReply(lines, n - 1)
             line == Strip(lines[n])
         IN  IF StartsWith(Upper(line), SceneMarker)
             THEN [before EXCEPT !.scene = AfterMarker(line)]
             ELSE IF StartsWith(Upper(line), StyleMarker)
             THEN [before EXCEPT !.style = AfterMarker(line)]
             ELSE before

\* The lines of the replies enumerated.
LinePrefixes ==
    { <<"S", "C", "E", "N", "E", ":">>, <<"s", "c", "e", "n", "e", ":">>, <<"S", "t", "y", "l", "e", ":">>, <<"S", "T", "Y", "L", "E", ":">>, <<" ", "S", "c", "e", "n", "e", ":">>, <<"S", "C", "E", "N", "E">>, <<"A", " ", "s", "c", "e", "n", "e", ":">> }

LineTexts == { <<" ", "a">>, <<"b", " ">> }

ReplyLines == { p \o t : p \in LinePrefixes, t \in LineTexts }

Replies == UNION { [1..n -> ReplyLines] : n \in 1..MaxLines }

\* One evaluation of the parsing loop of analyze_youtube_frames.
ParseVisionReply ==
    /\ pf.fn = "parse_reply"
    /\ ~pf.done
    /\ pf' = [pf EXCEPT !.done = TRUE,
                        !.value = ParseReply(pf.arg, Len(pf.arg))]
    /\ UNCHANGED <<au, tr, rt, rq, sb, settings, req, pc, loc, fr, ncalls, ret>>

\* One evaluation of parse_iso8601_duration.
ParseIso8601Duration ==
    /\ pf.fn = "parse_iso8601_duration"
    /\ ~pf.done
    /\ LET r == ParseDuration(pf.arg) IN
       pf' = [pf EXCEPT !.done = TRUE, !.raised = r.raised, !.value = r.value]
    /\ UNCHANGED <<au, tr, rt, rq, sb, settings, req, pc, loc, fr, ncalls, ret>>


NoCalls == [a \in Apis |-> 0]

\* A request for a YouTube URL enters analyze_youtube.
Init ==
    /\ rt = RetryIdle
    /\ settings \in SettingsObjects
    /\ req \in [url : UrlShapes, language : {"ru", "en"}]
    /\ pc = "metadata"
    /\ loc = InitLoc
    /\ fr = InitFr
    /\ ncalls = NoCalls
    /\ ret = Running
    /\ rq = RqIdle
    /\ sb = SbIdle
    /\ pf = PfIdle
    /\ au = AuIdle
    /\ tr = TrIdle

Next ==
    \/ AnalyzeYoutubeMetadata
    \/ AnalyzeYoutubeScrape
    \/ AnalyzeYoutubeTranscriptFree
    \/ AnalyzeYoutubeTranscriptPaid
    \/ AnalyzeYoutubeFrames
    \/ AnalyzeFramesFetched
    \/ AnalyzeFramesVision
    \/ RetryAttempt
    \/ RetryWake

Spec == Init /\ [][Next]_vars

\* The settings object config.py builds when no variable is set.
SourceSettings ==
    [a \in Credentials |-> IF a \in SettingsFields THEN "" ELSE NoAttr]

\* The retry_on tuples the callers pass, and the default (Exception,).
RetryOnSets ==
    { {"Exception"},
      {"TimeoutException", "ConnectError", "HTTPStatusError"},
      {"TimeoutException"} }

InitRetry ==
    /\ \E m \in 0..MaxRetries, ro \in RetryOnSets, b \in 1..MaxBaseDelay :
        rt = RetryStart("generic", m, ro, b)
    /\ settings = SourceSettings
    /\ req = [url |-> "none", language |-> "ru"]
    /\ pc = "idle"
    /\ loc = InitLoc
    /\ fr = InitFr
    /\ ncalls = NoCalls
    /\ ret = Running
    /\ rq = RqIdle
    /\ sb = SbIdle
    /\ pf = PfIdle
    /\ au = AuIdle
    /\ tr = TrIdle

NextRetry == RetryAttempt \/ RetryWake \/ RetryExhausted

SpecRetry == InitRetry /\ [][NextRetry]_vars

(***************************************************************************)
(* One analyze_url request.                                                *)
(***************************************************************************)
InitDetect ==
    /\ au \in [pc : {"entry"}, url : Urls, language : {"ru"},
                platform : {None}]
    /\ tr = TrIdle
    /\ rt = RetryIdle
    /\ settings = SourceSettings
    /\ req = [url |-> "none", language |-> "ru"]
    /\ pc = "idle"
    /\ loc = InitLoc
    /\ fr = InitFr
    /\ ncalls = NoCalls
    /\ ret = Running
    /\ rq = RqIdle
    /\ sb = SbIdle
    /\ pf = PfIdle

NextDetect == AnalyzeUrl \/ AnalyzeUrlAnalyzer \/ AnalyzeUrlYoutube

SpecDetect == InitDetect /\ [][NextDetect]_vars

(***************************************************************************)
(* One get_youtube_transcript call.                                        *)
(***************************************************************************)
\* The URLs and settings of a get_youtube_transcript call.
TranscriptUrls == {"watch", "embed", "v"}

TranscriptSettings ==
    { [SourceSettings EXCEPT !["scrapecreators_api_key"] = k] :
        k \in AttrValues("scrapecreators_api_key") }

InitTranscript ==
    /\ \E u \in TranscriptUrls : tr = [TrIdle EXCEPT !.pc = "entry", !.url = u]
    /\ settings \in TranscriptSettings
    /\ au = AuIdle
    /\ rt = RetryIdle
    /\ req = [url |-> "none", language |-> "ru"]
    /\ pc = "idle"
    /\ loc = InitLoc
    /\ fr = InitFr
    /\ ncalls = NoCalls
    /\ ret = Running
    /\ rq = RqIdle
    /\ sb = SbIdle
    /\ pf = PfIdle

NextTranscript == GetYoutubeTranscript \/ GetTranscriptPaid

SpecTranscript == InitTranscript /\ [][NextTranscript]_vars

(***************************************************************************)
(* One POST /api/analyze-url request.                                      *)
(***************************************************************************)
\* The URLs of the requests: every host, as typed.
RouteUrls == { <<"h", "t", "t", "p", "s", ":", "/", "/", "w", "w", "w", ".">> \o h \o <<"/", "p", "/", "a", "b", "c">> : h \in UrlHosts }

InitRoute ==
    /\ rq \in [pc : {"entry"}, url : RouteUrls, language : {"ru", "en"},
                response : {NoResponse}]
    /\ \E b \in Balances, u \in BOOLEAN :
          sb = [SbIdle EXCEPT !.balance = b, !.balance0 = b, !.user_exists = u]
    /\ pf = PfIdle
    /\ au = AuIdle
    /\ tr = TrIdle
    /\ rt = RetryIdle
    /\ settings = SourceSettings
    /\ req = [url |-> "none", language |-> "ru"]
    /\ pc = "idle"
    /\ loc = InitLoc
    /\ fr = InitFr
    /\ ncalls = NoCalls
    /\ ret = Running

NextRoute ==
    \/ ApiAnalyzeUrl
    \/ SpendTokensCheck
    \/ SpendTokensDebit
    \/ ApiAfterSpend
    \/ AnalyzeUrl
    \/ AnalyzeUrlAnalyzer
    \/ AnalyzeUrlYoutube
    \/ ApiRespond

SpecRoute == InitRoute /\ [][NextRoute]_vars

(***************************************************************************)
(* Two concurrent spend_tokens calls for one user.                         *)
(***************************************************************************)
InitLedger ==
    /\ \E b \in Balances, a1 \in Amounts, a2 \in Amounts :
          sb = [SbIdle EXCEPT !.balance = b, !.balance0 = b,
                              !.user_exists = TRUE,
                              !.calls = [c \in Callers |->
                                           StartCall(IF c = 1 THEN a1 ELSE a2)]]
    /\ rq = RqIdle
    /\ pf = PfIdle
    /\ au = AuIdle
    /\ tr = TrIdle
    /\ rt = RetryIdle
    /\ settings = SourceSettings
    /\ req = [url |-> "none", language |-> "ru"]
    /\ pc = "idle"
    /\ loc = InitLoc
    /\ fr = InitFr
    /\ ncalls = NoCalls
    /\ ret = Running

NextLedger == SpendTokensCheck \/ SpendTokensDebit

SpecLedger == InitLedger /\ [][NextLedger]_vars

(***************************************************************************)
(* The pure helpers on bounded inputs.                                     *)
(***************************************************************************)
InitPure ==
    /\ \/ \E d \in DurationStrings :
            pf = [PfIdle EXCEPT !.fn = "parse_iso8601_duration", !.arg = d]
       \/ \E r \in Replies :
            pf = [PfIdle EXCEPT !.fn = "parse_reply", !.arg = r]
    /\ rq = RqIdle
    /\ sb = SbIdle
    /\ au = AuIdle
    /\ tr = TrIdle
    /\ rt = RetryIdle
    /\ settings = SourceSettings
    /\ req = [url |-> "none", language |-> "ru"]
    /\ pc = "idle"
    /\ loc = InitLoc
    /\ fr = InitFr
    /\ ncalls = NoCalls
    /\ ret = Running

NextPure == ParseIso8601Duration \/ ParseVisionReply

SpecPure == InitPure /\ [][NextPure]_vars

(***************************************************************************)
(* Properties of analyze_youtube.                                          *)
(***************************************************************************)
Done == pc = "done"

EnrichmentCalls ==
    ncalls["captions"] + ncalls["scrape_transcript"]
        + ncalls["thumbnail"] + ncalls["vision"]

C2_WitnessVision ==
    /\ Done
    /\ ncalls["vision"] = 3
    /\ fr.result.frames_analyzed > 0
    /\ fr.result.scene_description = None
    /\ ret.rec.success = TRUE

\* C3: analyze_youtube never raises: for every URL, every combination of
\* credentials and every upstream outcome it ends by returning a record.
C3_NeverRaises == ret.kind # "raised"

\* C4: when the official source is unconfigured only the scraping fallback
\* is called and a returned record is tagged "scraping"; when the official
\* lookup succeeded the scraping metadata endpoint is not called.
C4_FallbackExclusivity ==
    /\ (Done /\ settings["youtube_api_key"] \in {NoAttr, ""})
          => /\ ncalls["official"] = 0
             /\ ncalls["scrape_meta"] = 1
             /\ (ret.kind = "returned" /\ ret.rec.success)
                   => ret.rec.metadata_source = "scraping"
    /\ loc.official = "ok" => ncalls["scrape_meta"] = 0

Issued(api) == ncalls'[api] > ncalls[api]

C8_WitnessTranscript ==
    /\ ret.kind = "returned"
    /\ ret.rec.success
    /\ ret.rec.transcript = "transcript text"
    /\ ret.rec.post_text = "desc"
    /\ ret.rec.narrative = "transcript text"

(***************************************************************************)
(* Properties of retry_async.                                              *)
(***************************************************************************)
RetryDone == rt.state \in {"returned", "raised"}

Retryable(out) == ~out.ok /\ IsInstance(out.exc, rt.retry_on)

\* C9: with max_retries >= 1, retry_async invokes the operation at least
\* once and at most max_retries times; a successful invocation is the last
\* one, and its value is the value retry_async returns.
C9_AttemptsBounded ==
    rt.max_retries >= 1 =>
        /\ Len(rt.history) <= rt.max_retries
        /\ RetryDone => Len(rt.history) >= 1
        /\ \A i \in 1..Len(rt.history) :
              rt.history[i].ok =>
                  /\ i = Len(rt.history)
                  /\ rt.state = "returned"
                  /\ rt.result = rt.history[i].value
        /\ rt.state = "returned" => rt.history[Len(rt.history)].ok

\* A call that succeeded on a later attempt, after retryable failures.
C9_Witness ==
    /\ rt.state = "returned"
    /\ rt.max_retries = 3
    /\ Len(rt.history) = 2
    /\ Retryable(rt.history[1])

\* C10: the wait after the k-th attempt, when that attempt failed with a
\* retryable failure and k < max_retries, is base_delay * 2^(k-1); there is
\* a wait after each such attempt and after no other attempt.
C10_BackoffDelay ==
    /\ \A i \in 1..Len(rt.sleeps) :
          /\ rt.sleeps[i].after = i
          /\ i < rt.max_retries
          /\ Retryable(rt.history[i])
          /\ rt.sleeps[i].delay = rt.base_delay * 2^(i - 1)
    /\ \A k \in 1..Len(rt.history) :
          (Retryable(rt.history[k]) /\ k < rt.max_retries)
              => Len(rt.sleeps) >= k
    /\ Len(rt.sleeps) <= Len(rt.history)
    /\ (RetryDone /\ Len(rt.history) >= 1)
          => Len(rt.sleeps) = Len(rt.history) - 1

\* Two waits happened (after attempts 1 and 2) and the third attempt failed
\* for good: no wait follows it.
C10_Witness ==
    /\ rt.state = "raised"
    /\ rt.base_delay = 2
    /\ Len(rt.history) = 3
    /\ Len(rt.sleeps) = 2
    /\ rt.sleeps[2].delay = 4

\* The failure of attempt i is of a class listed in retry_on.
InRetryOn(i) ==
    /\ ~rt.history[i].ok
    /\ (rt.history[i].exc.kind \in rt.retry_on \/ "Exception" \in rt.retry_on)

\* C11: when all max_retries attempts failed with retryable failures, the
\* exception retry_async raises is the exception object of the last attempt.
C11_LastFailureUnchanged ==
    (/\ rt.state = "raised"
     /\ rt.max_retries >= 1
     /\ Len(rt.history) = rt.max_retries
     /\ \A i \in 1..Len(rt.history) : InRetryOn(i))
        => /\ rt.raised = rt.history[rt.max_retries].exc
           /\ rt.raised.at = rt.max_retries

\* Three attempts failed, the last with another class than the second.
C11_Witness ==
    /\ rt.state = "raised"
    /\ rt.max_retries = 3
    /\ Len(rt.history) = 3
    /\ \A i \in 1..3 : InRetryOn(i)
    /\ rt.history[2].exc.kind # rt.history[3].exc.kind

\* C12: a failure whose class is not in retry_on ends retry_async at once:
\* it is the last invocation, it is the exception raised, and no wait
\* follows it, however many attempts remain.
C12_NonRetryablePropagates ==
    \A i \in 1..Len(rt.history) :
        (~rt.history[i].ok /\ ~InRetryOn(i)) =>
            /\ i = Len(rt.history)
            /\ rt.state = "raised"
            /\ rt.raised = rt.history[i].exc
            /\ Len(rt.sleeps) = i - 1

\* A non-retryable failure on the first of three attempts.
C12_Witness ==
    /\ rt.state = "raised"
    /\ rt.max_retries = 3
    /\ Len(rt.history) = 1
    /\ ~InRetryOn(1)
    /\ rt.sleeps = <<>>

\* The marker table of the specification: each domain marker with the tag
\* detect_platform is to return for a URL that contains it.
MarkerTags ==
    { <<InstagramCom, "instagram">>, <<InstagrAm, "instagram">>,
      <<TiktokCom, "tiktok">>, <<VmTiktokCom, "tiktok">>,
      <<YoutubeCom, "youtube">>, <<YoutuBe, "youtube">>,
      <<TwitterCom, "twitter">>, <<XCom, "twitter">>, <<TCo, "twitter">>,
      <<LinkedinCom, "linkedin">>,
      <<RedditCom, "reddit">>, <<ReddIt, "reddit">>,
      <<FacebookCom, "facebook">>, <<FbCom, "facebook">>,
      <<FbWatch, "facebook">>,
      <<ThreadsNet, "threads">> }

\* analyze_url has run detect_platform on its URL.
Detected == au.pc \notin {"idle", "entry"}

\* C13: a URL that contains a listed marker, in any letter case, gets the
\* tag the table gives for that marker; a URL that contains none gets
\* "unknown".
C13_MarkerTag ==
    Detected =>
        LET url_lower == Lower(au.url) IN
        /\ \A mt \in MarkerTags :
              Contains(url_lower, mt[1]) => au.platform = mt[2]
        /\ (\A mt \in MarkerTags : ~Contains(url_lower, mt[1]))
              => au.platform = "unknown"

\* C14: the checks are order-independent: no URL satisfies the condition
\* of more than one platform's check.
C14_ChecksDisjoint ==
    Detected =>
        Cardinality({k \in 1..Len(PlatformChecks) :
                        CheckHolds(k, Lower(au.url))}) <= 1

\* C15: for a URL that contains no marker analyze_url ends by raising the
\* unsupported-platform ValueError with no analyzer entered and no
\* outbound call issued.
C15_UnknownRaisesFirst ==
    (Detected /\ \A mt \in MarkerTags : ~Contains(Lower(au.url), mt[1]))
        => /\ au.pc = "done"
           /\ ret = Raised(Exc("ValueError", 0, 0))
           /\ ncalls = NoCalls

\* An upper-case URL without marker was rejected.
C15_Witness ==
    /\ au.pc = "done"
    /\ au.platform = "unknown"
    /\ au.url # Lower(au.url)
    /\ Len(au.url) > 10
    /\ ret.kind = "raised"
    /\ ret.exc.kind = "ValueError"

\* The priority class of a caption track: 1 manual Russian, 2 manual
\* English or English variant, 3 other manual, 4 auto-generated Russian,
\* 5 auto-generated English or English variant, 6 other auto-generated.
PriorityClass(t) ==
    (IF t.is_generated THEN 3 ELSE 0)
    + (IF t.language_code = "ru" THEN 1
       ELSE IF t.language_code \in {"en", "en-US", "en-GB"} THEN 2
       ELSE 3)

\* Tier 1 has read the track list and run the selection.
Selected == tr.pc \in {"paid", "done"} /\ tr.listed

\* C16: the selected track is a track of the highest-priority class that
\* has one; in the classes "any other", it is the first one encountered;
\* no track is selected only when the list is empty.
C16_TrackPriority ==
    Selected =>
        LET n == Len(tr.tracks)
            best == CHOOSE c \in 1..6 :
                       /\ \E j \in 1..n : PriorityClass(tr.tracks[j]) = c
                       /\ \A j \in 1..n : PriorityClass(tr.tracks[j]) >= c
        IN  IF n = 0 THEN tr.selected = NoTrack
            ELSE /\ \E j \in 1..n : tr.selected = tr.tracks[j]
                 /\ PriorityClass(tr.selected) = best
                 /\ best \in {3, 6} =>
                       \E j \in 1..n :
                          /\ tr.selected = tr.tracks[j]
                          /\ \A k \in 1..(j - 1) :
                                PriorityClass(tr.tracks[k]) # best

\* Two manual tracks of other languages: the first one is selected,
\* although its code sorts after the second one's.
C16_Witness ==
    /\ Selected
    /\ Len(tr.tracks) = 2
    /\ PriorityClass(tr.tracks[1]) = 3
    /\ PriorityClass(tr.tracks[2]) = 3
    /\ tr.tracks[1].language_code = "fr"
    /\ tr.selected = tr.tracks[1]

\* A manual track is selected although an auto-generated Russian one
\* comes first in the list.
C16_WitnessManualFirst ==
    /\ Selected
    /\ Len(tr.tracks) = 2
    /\ PriorityClass(tr.tracks[1]) = 4
    /\ PriorityClass(tr.tracks[2]) = 2
    /\ tr.selected = tr.tracks[2]

\* Tier 1 produced a transcript: a text that is neither None nor empty.
Tier1Produced == ~tr.free.text.none /\ tr.free.text.words # <<>>

\* C17: the paid endpoint is called only when Tier 1 produced no
\* transcript; when Tier 1 returns one, that one is the result and the
\* paid endpoint is not called.
C17_PaidOnlyAfterTier1Failure ==
    /\ (tr.pc = "paid" \/ ncalls["scrape_transcript"] > 0) => ~Tier1Produced
    /\ Tier1Produced => /\ tr.pc = "done"
                        /\ tr.result = tr.free
                        /\ ncalls["scrape_transcript"] = 0

\* Tier 1 returned a transcript and the call is over without paid call.
C17_Witness ==
    /\ tr.pc = "done"
    /\ Tier1Produced
    /\ tr.result = tr.free
    /\ settings["scrapecreators_api_key"] = "key"
    /\ ncalls["scrape_transcript"] = 0

\* Tier 1 fetched a track whose text cleaning emptied, and the paid
\* endpoint was called.
C17_WitnessEmptyText ==
    /\ tr.pc = "done"
    /\ tr.selected # NoTrack
    /\ ~tr.free.text.none
    /\ tr.free.text.words = <<>>
    /\ ncalls["scrape_transcript"] = 1

\* The tag of a track by its own language code.
OwnTag(t) ==
    IF t.is_generated THEN t.language_code \o "-auto" ELSE t.language_code

\* C18: the language tag Tier 1 returns is the selected track's own
\* language code, bare for a manual track and with -auto for an
\* auto-generated one, English variants included.
C18_OwnLanguageCode ==
    ~tr.free.text.none => tr.free.language = OwnTag(tr.selected)

\* C18 (amended): a track found by the English search (en, en-US, en-GB)
\* is tagged en, or en-auto when auto-generated; every other track carries
\* its own code, with -auto when auto-generated.
C18_EnglishTaggedEn ==
    ~tr.free.text.none =>
        tr.free.language =
            IF tr.selected.language_code \in {"en-US", "en-GB"}
            THEN (IF tr.selected.is_generated THEN "en-auto" ELSE "en")
            ELSE OwnTag(tr.selected)

\* An auto-generated British English track was fetched and tagged en-auto.
C18_Witness ==
    /\ ~tr.free.text.none
    /\ tr.free.text.words # <<>>
    /\ tr.selected = [language_code |-> "en-GB", is_generated |-> TRUE]
    /\ tr.free.language = "en-auto"

\* An auto-generated German track was fetched and tagged de-auto.
C18_WitnessOwnCode ==
    /\ ~tr.free.text.none
    /\ tr.free.text.words # <<>>
    /\ tr.selected = [language_code |-> "de", is_generated |-> TRUE]
    /\ tr.free.language = "de-auto"

\* len() of a returned text.
ReturnedLen(t) ==
    TextLen(t.words) + (IF t.marker THEN TruncationMarkerLength ELSE 0)

\* C19: a cleaned transcript of more than 15,000 characters is returned,
\* by either tier, as at most 15,000 characters made of whole leading
\* words and ending with the marker; a shorter one is returned unchanged
\* and without marker.
C19_TruncatedWithinLimit ==
    (tr.pc = "done" /\ ~tr.result.text.none) =>
        LET t == tr.result.text IN
        IF TextLen(tr.cleaned) > MAX_TRANSCRIPT_LENGTH
        THEN /\ ReturnedLen(t) <= MAX_TRANSCRIPT_LENGTH
             /\ ~t.split
             /\ t.marker
             /\ Len(t.words) <= Len(tr.cleaned)
             /\ t.words = SubSeq(tr.cleaned, 1, Len(t.words))
        ELSE t = Text(tr.cleaned, FALSE, FALSE)

\* analyze_youtube_frames has ended.
FramesEnded == fr.status \in {"returned", "raised"}

\* The result analyze_youtube_frames reports, as the claim states it.
FramesReport ==
    /\ fr.result.frames_analyzed \in 0..NumThumbnails
    /\ FramesEnded =>
          LET nothing == \/ settings["openai_api_key"] # "key"
                         \/ fr.frames_base64 = <<>>
          IN  /\ fr.status = "returned"
              /\ nothing <=> fr.result.frames_analyzed = 0
              /\ nothing => /\ fr.result = FrameResult(None, None, 0)
                            /\ ncalls["vision"] = 0
              /\ ~nothing => fr.result.frames_analyzed = Len(fr.frames_base64)

FetchEnded == pc = "fetching" /\ rt.state \in {"returned", "raised"}

\* The payload of the reply fetch_thumbnail_as_base64 ended on has at
\* least 1000 bytes.
FetchedLargeEnough ==
    /\ rt.state = "returned"
    /\ rt.history[Len(rt.history)].size >= 1000

C21_WitnessSent ==
    /\ fr.frames_base64 = <<1, 3>>
    /\ ncalls["vision"] > 0
    /\ fr.result.frames_analyzed = 2

\* Attempt i of the running retry_async call got an HTTP 4xx reply.
ClientError(i) ==
    /\ ~rt.history[i].ok
    /\ rt.history[i].exc.kind = "HTTPStatusError"
    /\ rt.history[i].exc.status \in 400..499

SpendFailed == sb.calls[1].pc = "done" /\ ~sb.calls[1].result.success

\* C25: analyze_url is entered, and content calls are issued, only after
\* spend_tokens returned success; after a spend_tokens failure the route
\* answers 402 without entering analyze_url.
C25_DebitPrecedesResolution ==
    /\ (au.pc # "idle" \/ ncalls # NoCalls) =>
          /\ sb.calls[1].pc = "done"
          /\ sb.calls[1].result.success
    /\ SpendFailed =>
          /\ rq.pc \in {"spend", "done"}
          /\ au = AuIdle
          /\ ncalls = NoCalls
          /\ rq.pc = "done" => rq.response = [status |-> 402, success |-> FALSE]

\* The balance did not cover the fee and the route answered 402.
C25_Witness ==
    /\ rq.pc = "done"
    /\ sb.user_exists
    /\ sb.balance = 5
    /\ sb.calls[1].result.error = "Insufficient balance"
    /\ rq.response.status = 402
    /\ au = AuIdle

\* The fee was debited and an analyzer was called afterwards.
C25_WitnessCharged ==
    /\ rq.pc = "done"
    /\ sb.calls[1].rpc_status = 200
    /\ sb.balance = sb.balance0 - PriceUrlAnalysis
    /\ ncalls["scrape_post"] = 1
    /\ rq.response.status = 200

\* parse_iso8601_duration has been applied to pf.arg.
Parsed == pf.fn = "parse_iso8601_duration" /\ pf.done

\* C26: parse_iso8601_duration raises on no string and returns a
\* non-negative integer: 0 when the string holds no digit, and the values
\* 3723, 330, 45, 0 and 86400 for PT1H2M3S, PT5M30S, PT45S, the empty
\* string and P1D.
C26_DurationTotal ==
    Parsed =>
        /\ ~pf.raised
        /\ pf.value >= 0
        /\ (\A i \in 1..Len(pf.arg) : ~IsDigit(pf.arg[i])) => pf.value = 0
        /\ pf.arg = <<"P", "T", "1", "H", "2", "M", "3", "S">> => pf.value = 3723
        /\ pf.arg = <<"P", "T", "5", "M", "3", "0", "S">> => pf.value = 330
        /\ pf.arg = <<"P", "T", "4", "5", "S">> => pf.value = 45
        /\ pf.arg = <<"P", "1", "D">> => pf.value = 86400
        /\ pf.arg = << >> => pf.value = 0

\* The reply has been parsed.
ReplyParsed == pf.fn = "parse_reply" /\ pf.done

\* The lines of the reply that start, in any letter case, with the marker.
LinesWith(marker) ==
    { i \in 1..Len(pf.arg) : StartsWith(Upper(Strip(pf.arg[i])), marker) }

\* The description the first line with the marker gives; none without
\* such a line.
FirstWith(marker) ==
    IF LinesWith(marker) = {} THEN NoDescription
    ELSE AfterMarker(Strip(pf.arg[CHOOSE i \in LinesWith(marker) :
                                    \A k \in LinesWith(marker) : i <= k]))

\* C27: scene_description comes from the first line that starts with
\* SCENE: and style_description from the first that starts with STYLE:,
\* later lines with the same marker change nothing, and a field without
\* marker line stays absent.
C27_FirstMarkerLine ==
    ReplyParsed =>
        /\ pf.value.scene = FirstWith(SceneMarker)
        /\ pf.value.style = FirstWith(StyleMarker)

\* The amount call c reported as charged with success (0 while it runs).
Charged(c) ==
    IF sb.calls[c].pc = "done" /\ sb.calls[c].result.success
    THEN sb.calls[c].result.charged
    ELSE 0

\* C28: in every interleaving of the spend_tokens calls for one user, the
\* amounts the successful calls report as charged add up to at most the
\* balance the user had before the calls.
C28_NoOverspend == Charged(1) + Charged(2) <= sb.balance0

\* C29: a spend_tokens call reports success and a charge only when the
\* spend_balance RPC answered 200 or 204; after any other answer it
\* reports no charge.
C29_ChargeOnlyIfDebited ==
    \A c \in Callers :
        sb.calls[c].pc = "done" =>
            /\ sb.calls[c].result.success => sb.calls[c].rpc_status \in {200, 204}
            /\ sb.calls[c].rpc_status \notin {200, 204} =>
                  sb.calls[c].result.charged = 0

\* C30: on the URL of a request the three video-id extractors agree: all
\* return the same id or all return None.
C30_ExtractorsAgree ==
    /\ extract_youtube_video_id(req.url) = extract_video_id(req.url)
    /\ extract_video_id(req.url) = transcript_extract_video_id(req.url)

====
